---- MODULE Spec2Model ----
(***************************************************************************)
(* GitGuard Codex: broker consumer -> durable job -> ledger / graph store. *)
(*                                                                         *)
(*   apps/guard-codex/nats_runner.py   the Ingestion Consumer (handler)    *)
(*   apps/guard-codex/workflow.py      CodexWorkflow.run, the pipeline     *)
(*   apps/guard-codex/activities.py    the steps, the Delivery Ledger and  *)
(*                                     the Graph Store statements          *)
(*   apps/guard-codex/maintenance_workflow.py   the Maintenance Job        *)
(*   tests/fault_injection.py, tests/guard_codex_fault_integration.py      *)
(*                                     the fault-injection harness         *)
(***************************************************************************)
EXTENDS Integers, Sequences, FiniteSets, TLC

(***************************************************************************)
(* Bounds of the model.                                                    *)
(***************************************************************************)
\* messages the webhook front end publishes to the broker
MaxMsgs == 2
\* deliveries of one message by the broker (first delivery + redeliveries)
MaxDeliveries == 2
\* executions of one step before the orchestrator gives up on the job
MaxAttempts == 2
\* copies of one event the duplicate flood publishes
MaxFlood == 3
\* messages published when single jobs are followed through the pipeline
MaxSolo == 1
\* days the database clock advances
MaxClock == 2
\* direct calls of the Graph Store functions, or of the fault harness
MaxCalls == 3
\* retention windows that pass on the database clock
MaxWindows == 1

\* cleanup_database: the days the ledger rows and the branch nodes are kept
RetentionDays == 90

(***************************************************************************)
(* State.                                                                  *)
(*   msgs    the stream: one record per published message                  *)
(*             p        its payload                                        *)
(*             st       "pending" (to be delivered), "acked", "naked",     *)
(*                      "unacked" (the handler raised: neither ack nor nak)*)
(*             result   the branch the handler took at the last delivery   *)
(*             acks, naks   calls of msg.ack() and msg.nak()               *)
(*             dlv      deliveries so far                                  *)
(*   jobs    the orchestrator's workflow executions, in start order        *)
(*             key      workflow id          msg   the triggering message  *)
(*             evt      the workflow input   pc    the step being run      *)
(*             attempts failed executions of the current step              *)
(*             hist     the completed steps, in completion order           *)
(*             err      the last step error  analysis  ANALYZE's result    *)
(*             retained the orchestrator still knows the execution         *)
(*             ip, loc  the running update_graph execution: its next       *)
(*                      statement and its local variables                  *)
(*   ledger  codex_seen_deliveries: rows [delivery_id, received_at]        *)
(*   graph   codex_nodes, codex_edges and the id sequence                  *)
(*   docs    the files under DOCS_DIR       site  the built portal         *)
(*   now     the database clock, in days                                   *)
(*   calls   the calls a client other than the pipeline made on the Graph  *)
(*           Store, with their arguments and the value returned            *)
(*   chaos   the fault-injection harness (tests/fault_injection.py and     *)
(*           tests/guard_codex_fault_integration.py)                       *)
(*             target    FAULT_ONCE_DELIVERY_ID, "" when unset             *)
(*             faulted   FaultInjector.faulted_delivery_ids                *)
(*             processed GuardCodexService.processed_events                *)
(*             published the events _publish_to_jetstream sent             *)
(*             log       the calls made: delivery id, the target at the    *)
(*                       call, and the outcome                             *)
(*   maint   the Maintenance Job (MaintenanceWorkflow, cleanup_database)   *)
(*             pc      "idle", the statement to run next, "DONE", "FAILED" *)
(*             status  the status of the result cleanup_database returned  *)
(*             ran     the cleanup statements the run has executed         *)
(*             at      the clock when the run started                      *)
(*   hashseed  the hash seed the consumer's interpreter drew at start-up   *)
(***************************************************************************)
VARIABLES msgs, jobs, ledger, graph, docs, site, now, calls, chaos, maint,
          hashseed

vars ==
  << msgs, jobs, ledger, graph, docs, site, now, calls, chaos, maint, hashseed >>

\* the elements of a sequence
Range(seq) == { seq[i] : i \in 1 .. Len(seq) }

(***************************************************************************)
(* Event payloads.  A payload is the byte string of one broker message,    *)
(* described by what the code reads from it:                               *)
(*   json         "obj": a JSON object, "nonobj": JSON but not an object,  *)
(*                "bad": bytes json.loads rejects                          *)
(*   delivery_id  "" when the key is absent or empty                       *)
(*   id           the top-level "id" key, "" when absent                   *)
(*   event        the "event" key, "" when absent                          *)
(*   pr           shape of "pull_request": "ok", "absent", "null" or       *)
(*                "nonum" (an object without "number")                     *)
(*   prid         pull_request.id, "" when absent                          *)
(*   number, title, paths (changed_files), tag (release.tag_name), repo,   *)
(*   policies, adrs                                                        *)
(*   branch       pull_request.head.ref as its path segments, << >> when   *)
(*                absent                                                   *)
(***************************************************************************)
Base ==
  [json |-> "obj", delivery_id |-> "", id |-> "", event |-> "",
   pr |-> "absent", prid |-> "", number |-> "", title |-> "",
   paths |-> << >>, tag |-> "", repo |-> "org/repo",
   policies |-> << >>, adrs |-> << >>, branch |-> << >>]

PrEvent(d, prid, n, t, ps) ==
  [Base EXCEPT !.delivery_id = d, !.event = "pull_request", !.pr = "ok",
               !.prid = prid, !.number = n, !.title = t, !.paths = ps]

PR_A    == PrEvent("d1", "", "7", "t7", << "a.py" >>)
REL_A   == [Base EXCEPT !.delivery_id = "d2", !.event = "release", !.tag = "v1"]
PUSH_A  == [Base EXCEPT !.delivery_id = "d3", !.event = "push"]
NOEVT_A == [Base EXCEPT !.delivery_id = "d4"]
BADPR_A == [Base EXCEPT !.delivery_id = "d5", !.event = "pull_request",
                        !.pr = "nonum"]
ANON_1  == PrEvent("", "1", "7", "t7", << "a.py" >>)
ANON_2  == PrEvent("", "2", "8", "", << >>)
BADJSON == [Base EXCEPT !.json = "bad"]
NONOBJ  == [Base EXCEPT !.json = "nonobj"]

PR_B    == PrEvent("d6", "", "8", "", << >>)

\* a later event of pull request 7: new title, one more changed file
PR_A2   == PrEvent("d7", "", "7", "t7b", << "a.py", "c.md" >>)

\* the end-to-end test's event: two changed files, a policy and an ADR
PR_E2E  ==
  [PrEvent("e2e-PR-0001", "", "777", "E2E Codex PR", << "a.py", "b.md" >>)
     EXCEPT !.policies = << "repo.guard.automerge" >>, !.adrs = << "0001-foo" >>]

\* an event that lists one changed file twice
PR_TWICE == PrEvent("d8", "", "9", "t9", << "a.py", "a.py" >>)

\* a push event that carries neither a delivery_id nor a pull_request
ANON_PUSH == [Base EXCEPT !.event = "push"]

\* a pull request on a short-lived branch
PR_F ==
  [PrEvent("d9", "", "11", "t11", << "a.py" >>)
     EXCEPT !.branch = << "feature", "x" >>]

\* the well-formed events a duplicate flood repeats
FloodPayloads == { PR_A, PR_B, REL_A }

\* the payloads the environment publishes
Payloads ==
  { PR_A, REL_A, PUSH_A, NOEVT_A, BADPR_A, ANON_1, ANON_2, BADJSON, NONOBJ }

(***************************************************************************)
(* nats_runner.handler: the job key.                                       *)
(***************************************************************************)
\* json.dumps(evt, sort_keys=True): the serialisation of the object
JsonDumps(p) ==
  p.event \o "|" \o p.id \o "|" \o p.pr \o "|" \o p.number \o "|" \o p.tag

\* hash(str): a number that is a function of the string and of the seed the
\* interpreter drew at start-up
PyHash(s, seed) == "#" \o seed \o "#" \o s

\* evaluating the wf_id expression raises (AttributeError) when evt is not
\* an object, or when delivery_id is falsy and pull_request is null
WfIdRaises(p) ==
  \/ p.json = "nonobj"
  \/ p.delivery_id = "" /\ p.pr = "null"

WfId(p, seed) ==
  IF p.delivery_id # "" THEN "codex-" \o p.delivery_id
  ELSE IF p.prid # "" THEN "codex-" \o p.prid
  ELSE "codex-" \o PyHash(JsonDumps(p), seed)

(***************************************************************************)
(* activities.extract_event_facts: the ledger identifier and the facts.    *)
(***************************************************************************)
LedgerId(p) ==
  IF p.delivery_id # "" THEN p.delivery_id
  ELSE IF p.id # "" THEN p.id
  ELSE "unknown"

\* the normalisation raises (KeyError / TypeError) on a pull_request or
\* release event whose object lacks the keys it indexes
NormalizeRaises(p) ==
  \/ p.event = "pull_request" /\ p.pr # "ok"
  \/ p.event = "release" /\ p.tag = ""

FactKind(p) ==
  IF p.event = "pull_request" THEN "PR"
  ELSE IF p.event = "release" THEN "Release"
  ELSE IF p.event = "" THEN "unknown"
  ELSE p.event


\* the fact record of a recognised event, as far as the later steps read it
Facts(p) ==
  IF p.event = "pull_request"
  THEN [kind |-> "PR", repo |-> p.repo, number |-> p.number,
        title |-> p.title, changed_paths |-> p.paths,
        policies |-> p.policies, adrs |-> p.adrs]
  ELSE IF p.event = "release"
  THEN [kind |-> "Release", repo |-> p.repo, tag |-> p.tag, title |-> p.tag]
  ELSE [kind |-> FactKind(p), repo |-> p.repo]

\* repo.split("/")[-1]
RepoName(repo) == IF repo = "org/repo" THEN "repo" ELSE repo

(***************************************************************************)
(* activities.analyze_repo_state: the diff against the merge base is what  *)
(* the checked-out repository says; symbols are the stems of the .py paths *)
(***************************************************************************)
DiffResults == { << >>, << "b.py" >> }

IsPy(path) == path \in { "a.py", "b.py" }
Stem(path) == IF path = "a.py" THEN "a" ELSE IF path = "b.py" THEN "b" ELSE path

RECURSIVE Symbols(_)
Symbols(paths) ==
  IF paths = << >> THEN << >>
  ELSE (IF IsPy(Head(paths))
        THEN << [path |-> Head(paths), name |-> Stem(Head(paths))] >>
        ELSE << >>) \o Symbols(Tail(paths))

Analysis(paths) == [paths |-> paths, symbols |-> Symbols(paths)]
\* workflow.py: analysis = {} when the fact kind is not PR
EmptyAnalysis == [paths |-> << >>, symbols |-> << >>]

(***************************************************************************)
(* Graph Store: codex_nodes unique (ntype, nkey), codex_edges unique       *)
(* (src, dst, rel).  A graph is [nodes, edges, nextId].                    *)
(***************************************************************************)
EmptyGraph == [nodes |-> {}, edges |-> {}, nextId |-> 1]

\* jsonb ||  : shallow merge, the right operand wins on shared keys
JsonMerge(a, b) ==
  [k \in (DOMAIN a) \cup (DOMAIN b) |-> IF k \in DOMAIN b THEN b[k] ELSE a[k]]

NodeAt(g, ntype, nkey) ==
  CHOOSE n \in g.nodes : n.ntype = ntype /\ n.nkey = nkey

HasNode(g, ntype, nkey) ==
  \E n \in g.nodes : n.ntype = ntype /\ n.nkey = nkey

\* mutant: on conflict the attribute map is replaced wholesale
UpsertNodeOverwrite(g, ntype, nkey, title, data) ==
  IF \E n \in g.nodes : n.ntype = ntype /\ n.nkey = nkey
  THEN [g EXCEPT !.nodes =
          { IF n.ntype = ntype /\ n.nkey = nkey
            THEN [n EXCEPT !.title = title, !.data = data] ELSE n
            : n \in g.nodes }]
  ELSE [g EXCEPT !.nodes = g.nodes \cup
                   {[id |-> g.nextId, ntype |-> ntype, nkey |-> nkey,
                     title |-> title, data |-> data,
                     created_at |-> now]},
                 !.nextId = g.nextId + 1]

\* mutant: the conflicting row is replaced by a new row
UpsertNodeReplace(g, ntype, nkey, title, data) ==
  [g EXCEPT !.nodes = { n \in g.nodes : ~(n.ntype = ntype /\ n.nkey = nkey) }
                        \cup {[id |-> g.nextId, ntype |-> ntype, nkey |-> nkey,
                                title |-> title, data |-> data,
                     created_at |-> now]},
            !.nextId = g.nextId + 1]

\* _upsert_node: INSERT ... ON CONFLICT (ntype, nkey) DO UPDATE SET
\* title = EXCLUDED.title, data = data || EXCLUDED.data  RETURNING id
\* (created_at, which the cleanup reads, is the time of the insert)
UpsertNode(g, ntype, nkey, title, data) ==
  IF HasNode(g, ntype, nkey)
  THEN LET old == NodeAt(g, ntype, nkey)
           new == [old EXCEPT !.title = title, !.data = JsonMerge(old.data, data)]
       IN  [g EXCEPT !.nodes = (g.nodes \ {old}) \cup {new}]
  ELSE [g EXCEPT !.nodes = g.nodes \cup
                   {[id |-> g.nextId, ntype |-> ntype, nkey |-> nkey,
                     title |-> title, data |-> data,
                     created_at |-> now]},
                 !.nextId = g.nextId + 1]

\* mutant: the id drawn from the sequence, also when the row exists
UpsertedIdFresh(g, ntype, nkey) == g.nextId

\* the id RETURNING gives back
UpsertedId(g, ntype, nkey) ==
  IF HasNode(g, ntype, nkey) THEN NodeAt(g, ntype, nkey).id ELSE g.nextId

\* mutant: the conflicting edge takes the new attributes
LinkUpdate(g, src, dst, rel, data) ==
  [g EXCEPT !.edges =
     { e \in g.edges : ~(e.src = src /\ e.dst = dst /\ e.rel = rel) }
     \cup {[src |-> src, dst |-> dst, rel |-> rel, data |-> data]}]

\* _link: INSERT ... ON CONFLICT (src, dst, rel) DO NOTHING
Link(g, src, dst, rel, data) ==
  IF \E e \in g.edges : e.src = src /\ e.dst = dst /\ e.rel = rel
  THEN g
  ELSE [g EXCEPT !.edges = g.edges \cup
                   {[src |-> src, dst |-> dst, rel |-> rel, data |-> data]}]

(***************************************************************************)
(* activities.update_graph as its sequence of statements.  A statement is  *)
(* an upsert that binds a local variable to the returned id, or a link of  *)
(* two local variables.                                                    *)
(***************************************************************************)
NodeStmt(var, ntype, nkey, title, data) ==
  [op |-> "node", var |-> var, ntype |-> ntype, nkey |-> nkey,
   title |-> title, data |-> data, src |-> "", dst |-> "", rel |-> ""]

LinkStmt(src, dst, rel) ==
  [op |-> "link", var |-> "", ntype |-> "", nkey |-> "", title |-> "",
   data |-> << >>, src |-> src, dst |-> dst, rel |-> rel]

\* mutant: the loop over the changed paths stops after the first path
FileStmtsFirstOnly(paths) ==
  IF paths = << >> THEN << >>
  ELSE << NodeStmt("f_id", "File", "file:" \o Head(paths), Head(paths),
                   [path |-> Head(paths)]),
          LinkStmt("pr_id", "f_id", "touches") >>

RECURSIVE FileStmts(_)
FileStmts(paths) ==
  IF paths = << >> THEN << >>
  ELSE << NodeStmt("f_id", "File", "file:" \o Head(paths), Head(paths),
                   [path |-> Head(paths)]),
          LinkStmt("pr_id", "f_id", "touches") >> \o FileStmts(Tail(paths))

RECURSIVE SymbolStmts(_)
SymbolStmts(syms) ==
  IF syms = << >> THEN << >>
  ELSE << NodeStmt("s_id", "Symbol",
                   "symbol:" \o Head(syms).path \o "#" \o Head(syms).name,
                   Head(syms).name, Head(syms)),
          LinkStmt("pr_id", "s_id", "defines") >> \o SymbolStmts(Tail(syms))

RECURSIVE GovernedStmts(_, _, _, _)
GovernedStmts(names, var, ntype, prefix) ==
  IF names = << >> THEN << >>
  ELSE << NodeStmt(var, ntype, prefix \o Head(names), Head(names), << >>),
          LinkStmt("pr_id", var, "governed_by") >>
       \o GovernedStmts(Tail(names), var, ntype, prefix)

\* (the Owner nodes are written only with CODEX_OWNERS_ENABLED, off by
\* default)
UpdateGraphStmts(facts, analysis) ==
  IF facts.kind = "PR"
  THEN << NodeStmt("pr_id", "PR", "pr:" \o facts.number,
                   IF facts.title # "" THEN facts.title
                   ELSE "PR #" \o facts.number, facts),
          NodeStmt("repo_id", "Repo", facts.repo, RepoName(facts.repo),
                   [full |-> facts.repo]),
          LinkStmt("repo_id", "pr_id", "has_pr") >>
       \o FileStmts(IF facts.changed_paths # << >> THEN facts.changed_paths
                    ELSE analysis.paths)
       \o SymbolStmts(analysis.symbols)
       \o GovernedStmts(facts.policies, "pol_id", "Policy", "policy:")
       \o GovernedStmts(facts.adrs, "adr_id", "ADR", "adr:")
  ELSE IF facts.kind = "Release"
  THEN << NodeStmt("rel_id", "Release", "release:" \o facts.tag,
                   facts.title, facts),
          NodeStmt("repo_id", "Repo", facts.repo, RepoName(facts.repo),
                   [full |-> facts.repo]),
          LinkStmt("repo_id", "rel_id", "has_release") >>
  ELSE << >>

\* the local variables of one update_graph execution: name -> node id
NoLocals == [v \in {} |-> 0]

\* one statement, executed against graph g with locals loc
ExecGraph(st, g, loc) ==
  IF st.op = "node"
  THEN UpsertNode(g, st.ntype, st.nkey, st.title, st.data)
  ELSE Link(g, loc[st.src], loc[st.dst], st.rel, << >>)

ExecLocals(st, g, loc) ==
  IF st.op = "node"
  THEN [v \in (DOMAIN loc) \cup {st.var} |->
          IF v = st.var THEN UpsertedId(g, st.ntype, st.nkey) ELSE loc[v]]
  ELSE loc

RECURSIVE RunStmts(_, _, _)
\* (g2 and loc2 range over singletons: the graph and the locals after the
\* first statement, computed once before the remaining statements run)
RunStmts(stmts, g, loc) ==
  IF stmts = << >> THEN g
  ELSE CHOOSE r \in { RunStmts(Tail(stmts), g2, loc2) :
                        g2 \in { ExecGraph(Head(stmts), g, loc) },
                        loc2 \in { ExecLocals(Head(stmts), g, loc) } } : TRUE

\* update_graph, start to end
UpdateGraphResult(g, facts, analysis) ==
  RunStmts(UpdateGraphStmts(facts, analysis), g, NoLocals)

(***************************************************************************)
(* activities.render_docs: the files it writes, path -> body.              *)
(***************************************************************************)
IndexDoc == [path |-> "index.md", body |-> << "index" >>]

RenderedDocs(facts, analysis) ==
  {IndexDoc} \cup
  (IF facts.kind = "PR"
   THEN {[path |-> "prs/" \o facts.number \o ".md",
          body |-> << facts.number, facts.title >>
                   \o (IF facts.changed_paths # << >>
                       THEN facts.changed_paths ELSE analysis.paths)]}
   ELSE IF facts.kind = "Release"
   THEN {[path |-> "releases/" \o facts.tag \o ".md", body |-> << facts.tag >>]}
   ELSE {})

\* write_text replaces the file at the same path
WriteDocs(fs, written) ==
  {f \in fs : \A w \in written : w.path # f.path} \cup written



\* the harness before any call: reset_fault_injector(), a fresh
\* GuardCodexService, FAULT_ONCE_DELIVERY_ID unset
NoChaos ==
  [target |-> "", faulted |-> {}, processed |-> {}, published |-> << >>,
   log |-> << >>]

\* the interpreter's hash seed of the consumer process at its first start
ConsumerSeed == "s0"

\* the seeds an interpreter draws (PYTHONHASHSEED is not set: random)
HashSeeds == { "s0", "s1" }

\* no Maintenance Job has run
NoMaint == [pc |-> "idle", status |-> "none", ran |-> {}, at |-> 0]

Init ==
  /\ msgs = << >>
  /\ jobs = << >>
  /\ ledger = {}
  /\ graph = EmptyGraph
  /\ docs = {}
  /\ site = {}
  /\ now = 0
  /\ calls = << >>
  /\ chaos = NoChaos
  /\ maint = NoMaint
  /\ hashseed = ConsumerSeed

Msgs == 1 .. Len(msgs)
Jobs == 1 .. Len(jobs)

Closed(j) == jobs[j].pc \in { "DONE", "SKIPPED", "FAILED" }

(***************************************************************************)
(* The broker.                                                             *)
(***************************************************************************)
NewMsg(p) ==
  [p |-> p, st |-> "pending", result |-> "none", acks |-> 0, naks |-> 0,
   dlv |-> 0]

\* js.publish(subject, payload), a stream of at most MaxSolo messages
PublishSolo(p) ==
  /\ Len(msgs) < MaxSolo
  /\ msgs' = Append(msgs, NewMsg(p))
  /\ UNCHANGED << jobs, ledger, graph, docs, site, now, calls, chaos, maint, hashseed >>

\* js.publish(subject, payload) by the webhook front end
Publish(p) ==
  /\ Len(msgs) < MaxMsgs
  /\ msgs' = Append(msgs, NewMsg(p))
  /\ UNCHANGED << jobs, ledger, graph, docs, site, now, calls, chaos, maint, hashseed >>

\* duplicate_flood_test: the same event payload published again and again
PublishDuplicate(p) ==
  /\ Len(msgs) < MaxFlood
  /\ msgs # << >> => p = msgs[1].p
  /\ msgs' = Append(msgs, NewMsg(p))
  /\ UNCHANGED << jobs, ledger, graph, docs, site, now, calls, chaos, maint, hashseed >>

\* JetStream redelivers a message that was nak'ed or whose ack wait expired
Redeliver(m) ==
  /\ msgs[m].st \in { "naked", "unacked" }
  /\ msgs[m].dlv < MaxDeliveries
  /\ msgs' = [msgs EXCEPT ![m].st = "pending"]
  /\ UNCHANGED << jobs, ledger, graph, docs, site, now, calls, chaos, maint, hashseed >>

\* a day passes on the database clock
Tick ==
  /\ now < MaxClock
  /\ now' = now + 1
  /\ UNCHANGED << msgs, jobs, ledger, graph, docs, site, calls, chaos, maint, hashseed >>

(***************************************************************************)
(* The fault-injection harness.                                            *)
(***************************************************************************)
\* the delivery ids the chaos tests use, and the values of the environment
\* variable
ChaosIds == { "fault-test-456", "dup-test-123" }
ChaosTargets == ChaosIds \cup { "" }

\* FaultInjector.should_inject_fault: the value it returns
ShouldInjectFault(ch, d) ==
  /\ ch.target # ""
  /\ d = ch.target
  /\ d \notin ch.faulted

\* mutant: the injector does not remember the fault
MarkFaultedForgets(ch, d) == ch

\* FaultInjector.should_inject_fault: what it leaves behind
MarkFaulted(ch, d) ==
  IF ShouldInjectFault(ch, d) THEN [ch EXCEPT !.faulted = @ \cup {d}] ELSE ch

LogEntry(op, ch, d, out) ==
  [op |-> op, id |-> d, target |-> ch.target, out |-> out]

\* mutant: publish_portal without the check of processed_events
ServicePublishPortalAlways(ch, d) ==
  [ch EXCEPT !.published = Append(@, d), !.processed = @ \cup {d}]

\* the body of GuardCodexService.publish_portal
ServicePublishPortal(ch, d) ==
  IF d \in ch.processed THEN ch
  ELSE [ch EXCEPT !.published = Append(@, d), !.processed = @ \cup {d}]

ServiceOutcome(ch, d) == IF d \in ch.processed THEN "duplicate" ELSE "ok"

\* mutant: the wrapper raises the fault after the wrapped function ran
WithFaultInjectionAfter(ch, d) ==
  IF ShouldInjectFault(ch, d)
  THEN [ServicePublishPortal(MarkFaulted(ch, d), d)
          EXCEPT !.log = Append(@, LogEntry("handle", ch, d, "fault"))]
  ELSE [ServicePublishPortal(ch, d)
          EXCEPT !.log = Append(@, LogEntry("handle", ch, d,
                                            ServiceOutcome(ch, d)))]

\* with_fault_injection around publish_portal: FaultInjectionError before
\* the function runs, else the function
WithFaultInjection(ch, d) ==
  IF ShouldInjectFault(ch, d)
  THEN [MarkFaulted(ch, d)
          EXCEPT !.log = Append(@, LogEntry("handle", ch, d, "fault"))]
  ELSE [ServicePublishPortal(ch, d)
          EXCEPT !.log = Append(@, LogEntry("handle", ch, d,
                                            ServiceOutcome(ch, d)))]

\* GuardCodexService.handle_github_webhook(delivery_id, ...): one
\* processing attempt
HandleGithubWebhook(d) ==
  /\ Len(chaos.log) < MaxCalls
  /\ chaos' = WithFaultInjection(chaos, d)
  /\ UNCHANGED << msgs, jobs, ledger, graph, docs, site, now, calls, maint, hashseed >>

\* a processing attempt whose _publish_to_jetstream raises: the wrapper
\* injected no fault, the id was not processed yet, js.publish raised and
\* publish_portal re-raises before processed_events.add
HandlePublishError(d) ==
  /\ Len(chaos.log) < MaxCalls
  /\ ~ShouldInjectFault(chaos, d)
  /\ d \notin chaos.processed
  /\ chaos' = [chaos EXCEPT !.log = Append(@, LogEntry("handle", chaos, d,
                                                       "error"))]
  /\ UNCHANGED << msgs, jobs, ledger, graph, docs, site, now, calls, maint,
                  hashseed >>

\* inject_publish_fault(delivery_id): should_inject_fault called directly
InjectPublishFault(d) ==
  /\ Len(chaos.log) < MaxCalls
  /\ chaos' = [MarkFaulted(chaos, d)
                 EXCEPT !.log = Append(@, LogEntry("inject", chaos, d,
                                  IF ShouldInjectFault(chaos, d)
                                  THEN "fault" ELSE "pass"))]
  /\ UNCHANGED << msgs, jobs, ledger, graph, docs, site, now, calls, maint, hashseed >>

\* os.environ["FAULT_ONCE_DELIVERY_ID"] is set, changed or removed
SetFaultTarget(t) ==
  /\ t # chaos.target
  /\ chaos' = [chaos EXCEPT !.target = t]
  /\ UNCHANGED << msgs, jobs, ledger, graph, docs, site, now, calls, maint, hashseed >>

(***************************************************************************)
(* _upsert_node and _link called directly on the store, as the unit tests  *)
(* call them: a PR and a File node, two titles, attribute maps with        *)
(* different key sets, edges with and without attributes.                  *)
(***************************************************************************)
CallKeys == { << "PR", "pr:123" >>, << "File", "file:a.py" >> }
CallTitles == { "Test PR #123", "Updated PR #123" }
CallAttrs ==
  { [author |-> "testuser"], [status |-> "merged"],
    [author |-> "other", status |-> "open"] }
CallEdgeAttrs == { << >>, [confidence |-> "0.95"], [confidence |-> "0.5"] }

UpsertNodeCall(ntype, nkey, title, data) ==
  /\ Len(calls) < MaxCalls
  /\ graph' = UpsertNode(graph, ntype, nkey, title, data)
  /\ calls' = Append(calls, [op |-> "node", ntype |-> ntype, nkey |-> nkey,
                             title |-> title, data |-> data, src |-> 0,
                             dst |-> 0, rel |-> "",
                             ret |-> UpsertedId(graph, ntype, nkey)])
  /\ UNCHANGED << msgs, jobs, ledger, docs, site, now, chaos, maint, hashseed >>

LinkCall(src, dst, rel, data) ==
  /\ Len(calls) < MaxCalls
  /\ graph' = Link(graph, src, dst, rel, data)
  /\ calls' = Append(calls, [op |-> "link", ntype |-> "", nkey |-> "",
                             title |-> "", data |-> data, src |-> src,
                             dst |-> dst, rel |-> rel, ret |-> 0])
  /\ UNCHANGED << msgs, jobs, ledger, docs, site, now, chaos, maint, hashseed >>

(***************************************************************************)
(* nats_runner.handler, one delivery of message m.  reachable: whether     *)
(* the orchestrator answers the start request.                             *)
(***************************************************************************)
NewJob(key, m, p) ==
  [key |-> key, msg |-> m, evt |-> p, pc |-> "EXTRACT_CHECK", attempts |-> 0,
   hist |-> << >>, err |-> "none", analysis |-> EmptyAnalysis,
   retained |-> TRUE, ip |-> 1, loc |-> NoLocals]

\* mutant: the orchestrator never rejects a start
KeyExistsNever(key) == FALSE

\* handle.start(evt) answers "already exists" for a key it knows
KeyExists(key) == \E j \in Jobs : jobs[j].key = key /\ jobs[j].retained

\* the branch the handler takes
HandlerBranch(p, reachable, exists) ==
  IF p.json = "bad" THEN "badjson"
  ELSE IF WfIdRaises(p) THEN "raised"
  ELSE IF ~reachable THEN "error"
  ELSE IF exists THEN "exists"
  ELSE "started"

\* mutant: a duplicate start is nak'ed like any other start error
SettleNakDuplicate(branch) ==
  IF branch = "started" THEN "acked"
  ELSE IF branch \in { "badjson", "error", "exists" } THEN "naked"
  ELSE "unacked"

\* mutant: every start error is acked
SettleAckStartError(branch) ==
  IF branch \in { "started", "exists", "error" } THEN "acked"
  ELSE IF branch = "badjson" THEN "naked"
  ELSE "unacked"

\* what the branch does with the message: msg.ack(), msg.nak() or neither
Settle(branch) ==
  IF branch \in { "started", "exists" } THEN "acked"
  ELSE IF branch \in { "badjson", "error" } THEN "naked"
  ELSE "unacked"

Handler(m, reachable) ==
  /\ msgs[m].st = "pending"
  /\ LET p == msgs[m].p
         key == WfId(p, hashseed)
         branch == HandlerBranch(p, reachable,
                                 IF p.json = "obj" /\ ~WfIdRaises(p)
                                 THEN KeyExists(key) ELSE FALSE)
         st == Settle(branch)
     IN
     /\ msgs' = [msgs EXCEPT ![m].st = st,
                             ![m].result = branch,
                             ![m].dlv = @ + 1,
                             ![m].acks = IF st = "acked" THEN @ + 1 ELSE @,
                             ![m].naks = IF st = "naked" THEN @ + 1 ELSE @]
     /\ jobs' = IF branch = "started" THEN Append(jobs, NewJob(key, m, p))
                ELSE jobs
  /\ UNCHANGED << ledger, graph, docs, site, now, calls, chaos, maint, hashseed >>

Deliver(m) == Handler(m, TRUE)

\* the same delivery while the orchestrator is unreachable
DeliverOutage(m) ==
  /\ msgs[m].p.json = "obj" /\ ~WfIdRaises(msgs[m].p)
  /\ Handler(m, FALSE)

\* the consumer process is restarted: asyncio.run(main()) in a new
\* interpreter, which draws its own hash seed
ConsumerRestart(sd) ==
  /\ sd # hashseed
  /\ hashseed' = sd
  /\ UNCHANGED << msgs, jobs, ledger, graph, docs, site, now, calls, chaos,
                  maint >>

\* the orchestrator's retention drops the history of a closed execution
ExpireHistory(j) ==
  /\ Closed(j)
  /\ jobs[j].retained
  /\ jobs' = [jobs EXCEPT ![j].retained = FALSE]
  /\ UNCHANGED << msgs, ledger, graph, docs, site, now, calls, chaos, maint, hashseed >>

(***************************************************************************)
(* The orchestrator running CodexWorkflow.run: one action per step         *)
(* execution.  execute_activity is called without a retry policy, so a     *)
(* failed execution is retried whatever the exception is, until the        *)
(* attempts are used up; the activity error then reaches workflow.run,     *)
(* which records the failure and re-raises: the job is FAILED.             *)
(***************************************************************************)
\* mutant: a retry restarts the pipeline from its first step
StepFailedRestart(job, err, again) ==
  IF job.attempts + 1 < MaxAttempts
  THEN [job EXCEPT !.attempts = @ + 1, !.err = err, !.pc = "EXTRACT_CHECK"]
  ELSE [job EXCEPT !.attempts = @ + 1, !.err = err, !.pc = "FAILED"]

StepFailed(job, err, again) ==
  IF job.attempts + 1 < MaxAttempts
  THEN [job EXCEPT !.attempts = @ + 1, !.err = err, !.pc = again]
  ELSE [job EXCEPT !.attempts = @ + 1, !.err = err, !.pc = "FAILED"]

StepDone(job, step, next) ==
  [job EXCEPT !.attempts = 0, !.hist = Append(@, step), !.pc = next]

\* mutant: the ledger lookup never finds the row
CheckDeliverySeenNever(d) == FALSE

\* _check_delivery_seen: SELECT 1 FROM codex_seen_deliveries WHERE ...
CheckDeliverySeen(d) == \E r \in ledger : r.delivery_id = d

\* mutant: the insert replaces the row of a delivery id it finds
MarkDeliverySeenReplace(l, d, t) ==
  { r \in l : r.delivery_id # d } \cup { [delivery_id |-> d, received_at |-> t] }

\* _mark_delivery_seen: INSERT INTO codex_seen_deliveries (delivery_id)
\* ... ON CONFLICT (delivery_id) DO NOTHING; received_at is the column's
\* default, the time of the insert
MarkDeliverySeen(l, d, t) ==
  IF \E r \in l : r.delivery_id = d THEN l
  ELSE l \cup { [delivery_id |-> d, received_at |-> t] }

\* extract_event_facts up to the ledger check
ExtractCheck(j) ==
  /\ jobs[j].pc = "EXTRACT_CHECK"
  /\ IF CheckDeliverySeen(LedgerId(jobs[j].evt))
     THEN jobs' = [jobs EXCEPT ![j] = StepFailed(@, "already_processed",
                                                 "EXTRACT_CHECK")]
     ELSE jobs' = [jobs EXCEPT ![j].pc = "EXTRACT_MARK"]
  /\ UNCHANGED << msgs, ledger, graph, docs, site, now, calls, chaos, maint, hashseed >>

\* mutant: ANALYZE for every recognised kind
AfterExtractAlwaysAnalyze(p) ==
  IF FactKind(p) = "unknown" THEN "SKIPPED" ELSE "ANALYZE"

\* workflow.run after EXTRACT_FACTS returned the facts
AfterExtract(p) ==
  IF FactKind(p) = "unknown" THEN "SKIPPED"
  ELSE IF FactKind(p) = "PR" THEN "ANALYZE"
  ELSE "UPDATE_GRAPH"

\* extract_event_facts from _mark_delivery_seen to its return
ExtractMark(j) ==
  /\ jobs[j].pc = "EXTRACT_MARK"
  /\ ledger' = MarkDeliverySeen(ledger, LedgerId(jobs[j].evt), now)
  /\ IF NormalizeRaises(jobs[j].evt)
     THEN jobs' = [jobs EXCEPT ![j] = StepFailed(@, "normalize",
                                                 "EXTRACT_CHECK")]
     ELSE jobs' = [jobs EXCEPT ![j] = StepDone(@, "EXTRACT_FACTS",
                                               AfterExtract(@.evt))]
  /\ UNCHANGED << msgs, graph, docs, site, now, calls, chaos, maint, hashseed >>

\* analyze_repo_state
Analyze(j) ==
  /\ jobs[j].pc = "ANALYZE"
  /\ \E paths \in DiffResults :
        jobs' = [jobs EXCEPT ![j] = [StepDone(@, "ANALYZE", "UPDATE_GRAPH")
                                       EXCEPT !.analysis = Analysis(paths)]]
  /\ UNCHANGED << msgs, ledger, graph, docs, site, now, calls, chaos, maint, hashseed >>

\* update_graph
UpdateGraph(j) ==
  /\ jobs[j].pc = "UPDATE_GRAPH"
  /\ graph' = UpdateGraphResult(graph, Facts(jobs[j].evt), jobs[j].analysis)
  /\ jobs' = [jobs EXCEPT ![j] = StepDone(@, "UPDATE_GRAPH", "RENDER_DOCS")]
  /\ UNCHANGED << msgs, ledger, docs, site, now, calls, chaos, maint, hashseed >>

\* update_graph, one statement: every statement is its own transaction
\* (the connection is opened with autocommit), so the statements of
\* concurrent executions interleave; the step completes with the last one
UpdateGraphStmt(j) ==
  /\ jobs[j].pc = "UPDATE_GRAPH"
  /\ LET stmts == UpdateGraphStmts(Facts(jobs[j].evt), jobs[j].analysis)
         ip == jobs[j].ip
         done == [StepDone(jobs[j], "UPDATE_GRAPH", "RENDER_DOCS")
                    EXCEPT !.ip = 1, !.loc = NoLocals]
     IN  IF stmts = << >>
         THEN graph' = graph /\ jobs' = [jobs EXCEPT ![j] = done]
         ELSE /\ graph' = ExecGraph(stmts[ip], graph, jobs[j].loc)
              /\ jobs' = [jobs EXCEPT ![j] =
                            IF ip = Len(stmts) THEN done
                            ELSE [@ EXCEPT !.ip = ip + 1,
                                           !.loc = ExecLocals(stmts[ip], graph, @)]]
  /\ UNCHANGED << msgs, ledger, docs, site, now, calls, chaos, maint, hashseed >>

\* an update_graph execution fails after some of its statements were
\* committed (the connection breaks, the worker dies); the retry runs
\* update_graph again from its first statement
UpdateGraphLost(j) ==
  /\ jobs[j].pc = "UPDATE_GRAPH"
  /\ jobs[j].ip > 1
  /\ jobs' = [jobs EXCEPT ![j] =
                [StepFailed(@, "transient", "UPDATE_GRAPH")
                   EXCEPT !.ip = 1, !.loc = NoLocals]]
  /\ UNCHANGED << msgs, ledger, graph, docs, site, now, calls, chaos, maint,
                  hashseed >>

\* render_docs
RenderDocs(j) ==
  /\ jobs[j].pc = "RENDER_DOCS"
  /\ docs' = WriteDocs(docs, RenderedDocs(Facts(jobs[j].evt), jobs[j].analysis))
  /\ jobs' = [jobs EXCEPT ![j] = StepDone(@, "RENDER_DOCS", "PUBLISH")]
  /\ UNCHANGED << msgs, ledger, graph, site, now, calls, chaos, maint, hashseed >>

\* publish_portal: mkdocs builds the site from the docs directory;
\* workflow.run then returns {"ok": True, ...}
PublishPortal(j) ==
  /\ jobs[j].pc = "PUBLISH"
  /\ site' = { f.path : f \in docs }
  /\ jobs' = [jobs EXCEPT ![j] = StepDone(@, "PUBLISH", "DONE")]
  /\ UNCHANGED << msgs, ledger, graph, docs, now, calls, chaos, maint, hashseed >>

\* a step execution fails with a transient error (database, git, mkdocs,
\* worker crash, timeout) before it has changed anything
StepError(j) ==
  /\ jobs[j].pc \in { "EXTRACT_CHECK", "ANALYZE", "UPDATE_GRAPH",
                      "RENDER_DOCS", "PUBLISH" }
  /\ jobs' = [jobs EXCEPT ![j] = StepFailed(@, "transient", @.pc)]
  /\ UNCHANGED << msgs, ledger, graph, docs, site, now, calls, chaos, maint, hashseed >>

\* the EXTRACT_FACTS execution is lost after its ledger insert (worker
\* crash or timeout between the insert and the activity's completion)
ExtractLost(j) ==
  /\ jobs[j].pc = "EXTRACT_MARK"
  /\ ledger' = MarkDeliverySeen(ledger, LedgerId(jobs[j].evt), now)
  /\ jobs' = [jobs EXCEPT ![j] = StepFailed(@, "transient", "EXTRACT_CHECK")]
  /\ UNCHANGED << msgs, graph, docs, site, now, calls, chaos, maint, hashseed >>

(***************************************************************************)
(* The Maintenance Job: MaintenanceWorkflow.run executes cleanup_database, *)
(* which runs _cleanup_old_deliveries and _cleanup_temporary_branch_edges  *)
(* inside one try.  The connections are autocommit: each DELETE is its own *)
(* transaction, and the pipeline's statements interleave with them.        *)
(***************************************************************************)
\* a retention window and a day pass on the database clock
PassWindow ==
  /\ now < MaxWindows * (RetentionDays + 1)
  /\ now' = now + RetentionDays + 1
  /\ UNCHANGED << msgs, jobs, ledger, graph, docs, site, calls, chaos, maint,
                  hashseed >>

\* data->>'branch_name' LIKE 'feature/%' OR ... 'hotfix/%' OR ... 'temp/%'
\* (a branch name is the sequence of its segments between the slashes)
ShortLivedBranch(b) ==
  Len(b) >= 2 /\ b[1] \in { "feature", "hotfix", "temp" }

\* mutant: the WHERE clause without the branch-name test
StaleBranchNodeAnyBranch(n, t, days) ==
  n.ntype = "PR" /\ n.created_at < t - days

\* the WHERE clause of both DELETEs of _cleanup_temporary_branch_edges
StaleBranchNode(n, t, days) ==
  /\ n.ntype = "PR"
  /\ "branch_name" \in DOMAIN n.data
  /\ ShortLivedBranch(n.data.branch_name)
  /\ n.created_at < t - days

\* _cleanup_old_deliveries: DELETE FROM codex_seen_deliveries
\* WHERE received_at < now() - interval 'N days'
CleanupOldDeliveries(l, t, days) ==
  { r \in l : ~(r.received_at < t - days) }

\* _cleanup_temporary_branch_edges, first statement: DELETE FROM codex_edges
\* WHERE src IN (SELECT id FROM codex_nodes WHERE ...)
DeleteBranchEdges(g, t, days) ==
  [g EXCEPT !.edges =
     { e \in g.edges :
         ~\E n \in g.nodes : n.id = e.src /\ StaleBranchNode(n, t, days) }]

\* graph_schema.sql is not among the sources.  The edge table, as the
\* specification lays it out, is (src, dst, relation, attributes) with
\* unique (src, dst, relation) and no reference to the node table: deleting
\* a node row deletes no edge row
EdgesCascade == FALSE

\* second statement: DELETE FROM codex_nodes WHERE ...
DeleteBranchNodes(g, t, days) ==
  LET gone == { n.id : n \in { x \in g.nodes : StaleBranchNode(x, t, days) } }
  IN  [g EXCEPT !.nodes = { n \in g.nodes : n.id \notin gone },
                !.edges = IF EdgesCascade
                          THEN { e \in g.edges :
                                   e.src \notin gone /\ e.dst \notin gone }
                          ELSE g.edges]

\* the statements of one cleanup_database execution, in order
CleanupStatements == << "PRUNE", "EDGES", "NODES" >>

\* mutant: the exception leaves cleanup_database, the activity fails and
\* with it the workflow
CleanupCaughtPropagates(m) == [m EXCEPT !.pc = "FAILED"]

\* except Exception as e: return {"status": "error", ...}; the workflow
\* returns the result
CleanupCaught(m) == [m EXCEPT !.pc = "DONE", !.status = "error"]

\* a statement ran to its end: the next one, or return {"status":
\* "success", ...} after the last
CleanupRan(m, stmt) ==
  IF stmt = "NODES"
  THEN [m EXCEPT !.ran = @ \cup {stmt}, !.pc = "DONE", !.status = "success"]
  ELSE [m EXCEPT !.ran = @ \cup {stmt},
                 !.pc = IF stmt = "PRUNE" THEN "EDGES" ELSE "NODES"]

\* the schedule starts a MaintenanceWorkflow execution
MaintStart ==
  /\ maint.pc \in { "idle", "DONE" }
  /\ maint' = [pc |-> "PRUNE", status |-> "none", ran |-> {}, at |-> now]
  /\ UNCHANGED << msgs, jobs, ledger, graph, docs, site, now, calls, chaos,
                  hashseed >>

\* _cleanup_old_deliveries(90)
MaintPrune ==
  /\ maint.pc = "PRUNE"
  /\ ledger' = CleanupOldDeliveries(ledger, now, RetentionDays)
  /\ maint' = CleanupRan(maint, "PRUNE")
  /\ UNCHANGED << msgs, jobs, graph, docs, site, now, calls, chaos, hashseed >>

\* _cleanup_temporary_branch_edges(90), the DELETE on codex_edges
MaintEdges ==
  /\ maint.pc = "EDGES"
  /\ graph' = DeleteBranchEdges(graph, now, RetentionDays)
  /\ maint' = CleanupRan(maint, "EDGES")
  /\ UNCHANGED << msgs, jobs, ledger, docs, site, now, calls, chaos, hashseed >>

\* _cleanup_temporary_branch_edges(90), the DELETE on codex_nodes
MaintNodes ==
  /\ maint.pc = "NODES"
  /\ graph' = DeleteBranchNodes(graph, now, RetentionDays)
  /\ maint' = CleanupRan(maint, "NODES")
  /\ UNCHANGED << msgs, jobs, ledger, docs, site, now, calls, chaos, hashseed >>

\* the statement cleanup_database is about to run raises (the database is
\* down, the statement is rejected)
MaintError ==
  /\ maint.pc \in Range(CleanupStatements)
  /\ maint' = CleanupCaught(maint)
  /\ UNCHANGED << msgs, jobs, ledger, graph, docs, site, now, calls, chaos,
                  hashseed >>

\* another writer of the Graph Store records the branch of a pull request
\* on its PR node with _upsert_node (the cleanup reads data->>'branch_name';
\* no statement of update_graph writes that key)
BranchNames == { << "feature", "x" >>, << "main" >> }

RecordBranch(number, b) ==
  /\ graph' = UpsertNode(graph, "PR", "pr:" \o number, "PR #" \o number,
                         [branch_name |-> b])
  /\ UNCHANGED << msgs, jobs, ledger, docs, site, now, calls, chaos, maint,
                  hashseed >>

(***************************************************************************)
(* Specifications.                                                         *)
(***************************************************************************)
Next ==
  \/ \E p \in Payloads : Publish(p)
  \/ \E m \in Msgs : Deliver(m)
  \/ \E m \in Msgs : DeliverOutage(m)
  \/ \E m \in Msgs : Redeliver(m)
  \/ \E j \in Jobs : ExtractCheck(j)
  \/ \E j \in Jobs : ExtractMark(j)
  \/ \E j \in Jobs : Analyze(j)
  \/ \E j \in Jobs : UpdateGraph(j)
  \/ \E j \in Jobs : RenderDocs(j)
  \/ \E j \in Jobs : PublishPortal(j)
  \/ \E j \in Jobs : StepError(j)
  \/ \E j \in Jobs : ExtractLost(j)
  \/ \E j \in Jobs : ExpireHistory(j)

Spec == Init /\ [][Next]_vars


\* the duplicate flood against a reachable orchestrator, no step error
NextFlood ==
  \/ \E p \in FloodPayloads : PublishDuplicate(p)
  \/ \E m \in Msgs : Deliver(m)
  \/ \E j \in Jobs : ExtractCheck(j)
  \/ \E j \in Jobs : ExtractMark(j)
  \/ \E j \in Jobs : Analyze(j)
  \/ \E j \in Jobs : UpdateGraph(j)
  \/ \E j \in Jobs : RenderDocs(j)
  \/ \E j \in Jobs : PublishPortal(j)

SpecFlood == Init /\ [][NextFlood]_vars

\* the duplicate flood with orchestrator outages, redelivery and expiry of
\* the orchestrator's history
NextDup ==
  \/ \E p \in FloodPayloads : PublishDuplicate(p)
  \/ \E m \in Msgs : Deliver(m)
  \/ \E j \in Jobs : ExtractCheck(j)
  \/ \E j \in Jobs : ExtractMark(j)
  \/ \E j \in Jobs : Analyze(j)
  \/ \E j \in Jobs : UpdateGraph(j)
  \/ \E j \in Jobs : RenderDocs(j)
  \/ \E j \in Jobs : PublishPortal(j)
  \/ \E m \in Msgs : DeliverOutage(m)
  \/ \E m \in Msgs : Redeliver(m)
  \/ \E j \in Jobs : ExpireHistory(j)

SpecDup == Init /\ [][NextDup]_vars

\* the consumer alone: every payload, outages and redelivery
NextConsumer ==
  \/ \E p \in Payloads : Publish(p)
  \/ \E m \in Msgs : Deliver(m)
  \/ \E m \in Msgs : DeliverOutage(m)
  \/ \E m \in Msgs : Redeliver(m)

SpecConsumer == Init /\ [][NextConsumer]_vars


\* every payload, every step and every step failure, on a short stream
\* handled while the orchestrator is reachable
NextSolo ==
  \/ \E p \in Payloads : PublishSolo(p)
  \/ \E m \in Msgs : Deliver(m)
  \/ \E j \in Jobs : ExtractCheck(j)
  \/ \E j \in Jobs : ExtractMark(j)
  \/ \E j \in Jobs : Analyze(j)
  \/ \E j \in Jobs : UpdateGraph(j)
  \/ \E j \in Jobs : RenderDocs(j)
  \/ \E j \in Jobs : PublishPortal(j)
  \/ \E j \in Jobs : StepError(j)
  \/ \E j \in Jobs : ExtractLost(j)
  \/ \E j \in Jobs : ExpireHistory(j)

SpecSolo == Init /\ [][NextSolo]_vars

\* a transient failure the orchestrator's retry absorbs: the step has
\* attempts left
TransientError(j) ==
  /\ jobs[j].attempts + 1 < MaxAttempts
  /\ StepError(j)

\* the same for an EXTRACT_FACTS execution lost after its ledger insert
LostAfterMark(j) ==
  /\ jobs[j].attempts + 1 < MaxAttempts
  /\ ExtractLost(j)

\* single jobs whose steps fail only while attempts are left
NextLive ==
  \/ \E p \in Payloads : PublishSolo(p)
  \/ \E m \in Msgs : Deliver(m)
  \/ \E j \in Jobs : ExtractCheck(j)
  \/ \E j \in Jobs : ExtractMark(j)
  \/ \E j \in Jobs : Analyze(j)
  \/ \E j \in Jobs : UpdateGraph(j)
  \/ \E j \in Jobs : RenderDocs(j)
  \/ \E j \in Jobs : PublishPortal(j)
  \/ \E j \in Jobs : TransientError(j)
  \/ \E j \in Jobs : LostAfterMark(j)

\* the worker polls its task queue for ever: a scheduled step execution is
\* eventually run to its end
LiveFairness ==
  /\ WF_vars(\E j \in Jobs : ExtractCheck(j))
  /\ WF_vars(\E j \in Jobs : ExtractMark(j))
  /\ WF_vars(\E j \in Jobs : Analyze(j))
  /\ WF_vars(\E j \in Jobs : UpdateGraph(j))
  /\ WF_vars(\E j \in Jobs : RenderDocs(j))
  /\ WF_vars(\E j \in Jobs : PublishPortal(j))

SpecLive == Init /\ [][NextLive]_vars /\ LiveFairness

\* events whose EXTRACT_FACTS executions meet at the ledger: two of them
\* carry no delivery_id and share the ledger identifier
LedgerPayloads == { PR_A, ANON_1, ANON_2 }

\* the ledger under concurrent EXTRACT_FACTS executions while time passes
NextLedger ==
  \/ \E p \in LedgerPayloads : Publish(p)
  \/ \E m \in Msgs : Deliver(m)
  \/ \E j \in Jobs : ExtractCheck(j)
  \/ \E j \in Jobs : ExtractMark(j)
  \/ \E j \in Jobs : ExtractLost(j)
  \/ Tick

SpecLedger == Init /\ [][NextLedger]_vars

\* two events of one pull request: their update_graph executions write
\* the same PR, Repo and File nodes and the same edges
GraphPayloads == { PR_A, PR_A2 }

\* concurrent jobs up to the end of UPDATE_GRAPH, statement by statement
NextGraph ==
  \/ \E p \in GraphPayloads : Publish(p)
  \/ \E m \in Msgs : Deliver(m)
  \/ \E j \in Jobs : ExtractCheck(j)
  \/ \E j \in Jobs : ExtractMark(j)
  \/ \E j \in Jobs : Analyze(j)
  \/ \E j \in Jobs : UpdateGraphStmt(j)

SpecGraph == Init /\ [][NextGraph]_vars

\* the Graph Store under direct calls
NextUpsert ==
  \/ \E k \in CallKeys, title \in CallTitles, data \in CallAttrs :
       UpsertNodeCall(k[1], k[2], title, data)
  \/ \E src, dst \in { n.id : n \in graph.nodes }, data \in CallEdgeAttrs :
       LinkCall(src, dst, "touches", data)

SpecUpsert == Init /\ [][NextUpsert]_vars

\* the events of the ingestion scenario
ScenarioPayloads == { PR_E2E, PR_TWICE }

\* one pull request event ingested and re-ingested: the same message
\* published again, also after the orchestrator forgot the first job
NextScenario ==
  \/ \E p \in ScenarioPayloads : PublishDuplicate(p)
  \/ \E m \in Msgs : Deliver(m)
  \/ \E j \in Jobs : ExtractCheck(j)
  \/ \E j \in Jobs : ExtractMark(j)
  \/ \E j \in Jobs : Analyze(j)
  \/ \E j \in Jobs : UpdateGraphStmt(j)
  \/ \E j \in Jobs : RenderDocs(j)
  \/ \E j \in Jobs : PublishPortal(j)
  \/ \E j \in Jobs : ExpireHistory(j)

SpecScenario == Init /\ [][NextScenario]_vars

\* the fault-injection harness: processing attempts and direct injector
\* calls for any delivery id, under any setting of the environment
NextChaos ==
  \/ \E d \in ChaosIds : HandleGithubWebhook(d)
  \/ \E d \in ChaosIds : InjectPublishFault(d)
  \/ \E t \in ChaosTargets : SetFaultTarget(t)

SpecChaos == Init /\ [][NextChaos]_vars

\* a pull request event and a release event of one repository
RetryPayloads == { PR_A, PR_B, REL_A }

\* single jobs whose update_graph executions break off and are retried
NextRetry ==
  \/ \E p \in RetryPayloads : PublishSolo(p)
  \/ \E m \in Msgs : Deliver(m)
  \/ \E j \in Jobs : ExtractCheck(j)
  \/ \E j \in Jobs : ExtractMark(j)
  \/ \E j \in Jobs : Analyze(j)
  \/ \E j \in Jobs : UpdateGraphStmt(j)
  \/ \E j \in Jobs : UpdateGraphLost(j)

SpecRetry == Init /\ [][NextRetry]_vars

\* events with and without a delivery_id and a pull_request id
RestartPayloads == { PR_A, ANON_1, ANON_PUSH }

\* the consumer across restarts
NextRestart ==
  \/ \E p \in RestartPayloads : Publish(p)
  \/ \E m \in Msgs : Deliver(m)
  \/ \E sd \in HashSeeds : ConsumerRestart(sd)

SpecRestart == Init /\ [][NextRestart]_vars

\* the pull requests whose branch another writer records
MaintNumbers == { "11" }

\* the Maintenance Job next to the pipeline of a pull request on a
\* short-lived branch, while retention windows pass
NextMaint ==
  \/ PublishSolo(PR_F)
  \/ \E m \in Msgs : Deliver(m)
  \/ \E j \in Jobs : ExtractCheck(j)
  \/ \E j \in Jobs : ExtractMark(j)
  \/ \E j \in Jobs : Analyze(j)
  \/ \E j \in Jobs : UpdateGraph(j)
  \/ \E n \in MaintNumbers, b \in BranchNames : RecordBranch(n, b)
  \/ PassWindow
  \/ MaintStart
  \/ MaintPrune
  \/ MaintEdges
  \/ MaintNodes
  \/ MaintError

SpecMaint == Init /\ [][NextMaint]_vars

\* the same with update_graph statement by statement, its statements
\* interleaved with the DELETEs of the cleanup
NextSweep ==
  \/ PublishSolo(PR_F)
  \/ \E m \in Msgs : Deliver(m)
  \/ \E j \in Jobs : ExtractCheck(j)
  \/ \E j \in Jobs : ExtractMark(j)
  \/ \E j \in Jobs : Analyze(j)
  \/ \E j \in Jobs : UpdateGraphStmt(j)
  \/ \E n \in MaintNumbers, b \in BranchNames : RecordBranch(n, b)
  \/ PassWindow
  \/ MaintStart
  \/ MaintPrune
  \/ MaintEdges
  \/ MaintNodes
  \/ MaintError

SpecSweep == Init /\ [][NextSweep]_vars

\* the service under processing attempts that succeed, meet an injected
\* fault or a publish error
NextService ==
  \/ \E d \in ChaosIds : HandleGithubWebhook(d)
  \/ \E d \in ChaosIds : HandlePublishError(d)
  \/ \E t \in ChaosTargets : SetFaultTarget(t)

SpecService == Init /\ [][NextService]_vars

(***************************************************************************)
(* Properties.                                                             *)
(***************************************************************************)
\* the step a job is executing, "" once the job is closed
RunningStep(j) ==
  IF jobs[j].pc \in { "EXTRACT_CHECK", "EXTRACT_MARK" } THEN "EXTRACT_FACTS"
  ELSE IF Closed(j) THEN ""
  ELSE jobs[j].pc

Completed(j, step) == step \in Range(jobs[j].hist)

\* the rows of table l for delivery id d
RowsOf(l, d) == { r \in l : r.delivery_id = d }

InLedger(l, d) == RowsOf(l, d) # {}

AllSettled ==
  /\ msgs # << >>
  /\ \A m \in Msgs : msgs[m].st = "acked"
  /\ \A j \in Jobs : Closed(j)

\* what ANALYZE can hand to the later steps of a job for payload p
PossibleAnalyses(p) ==
  IF FactKind(p) = "PR" THEN { Analysis(d) : d \in DiffResults }
  ELSE { EmptyAnalysis }

C2_OneFirstProcessing ==
  \A j1, j2 \in Jobs :
    ( /\ j1 # j2
      /\ LedgerId(jobs[j1].evt) = LedgerId(jobs[j2].evt)
      /\ jobs[j1].pc = "EXTRACT_MARK" \/ Completed(j1, "EXTRACT_FACTS") )
    => ~( jobs[j2].pc = "EXTRACT_MARK" \/ Completed(j2, "EXTRACT_FACTS") )

C4_AckIffStartedOrExists ==
  \A m \in Msgs :
    (msgs[m].dlv > 0 /\ msgs[m].st # "pending") =>
      /\ msgs[m].st = "acked" <=> msgs[m].result \in { "started", "exists" }
      /\ msgs[m].result \in { "badjson", "error" } => msgs[m].st = "naked"
      /\ msgs[m].p.json = "bad" => msgs[m].st = "naked"
      /\ msgs[m].result = "started" <=> \E j \in Jobs : jobs[j].msg = m
      /\ msgs[m].result = "exists" =>
           \E j \in Jobs : /\ jobs[j].msg # m
                           /\ jobs[j].key = WfId(msgs[m].p, ConsumerSeed)
      /\ msgs[m].acks = (IF msgs[m].st = "acked" THEN 1 ELSE 0)
      /\ msgs[m].st = "naked" => msgs[m].naks > 0

\* a duplicate nak'ed during an outage, redelivered and acked as existing
C4_Witness ==
  \E m \in Msgs :
    msgs[m].st = "acked" /\ msgs[m].result = "exists" /\ msgs[m].naks = 1

\* C5: when a job ends FAILED its triggering message has not been acked.
C5_FailedJobNotAcked ==
  \A j \in Jobs :
    jobs[j].pc = "FAILED" =>
      msgs[jobs[j].msg].st # "acked" /\ msgs[jobs[j].msg].acks = 0

\* C6: the "already processed" error of EXTRACT_FACTS is terminal: the step
\* is not retried and the job ends "skipped", not FAILED.
C6_AlreadyProcessedIsSkipped ==
  \A j \in Jobs :
    jobs[j].err = "already_processed" =>
      jobs[j].pc = "SKIPPED" /\ jobs[j].attempts = 0

\* a job started for a key the orchestrator had known before
DuplicateAttempt(j) == \E i \in 1 .. (j - 1) : jobs[i].key = jobs[j].key

\* C7: a new job attempt for a duplicate, made while the delivery record is
\* in the ledger, does not get past EXTRACT_FACTS: it executes none of
\* UPDATE_GRAPH, RENDER_DOCS, PUBLISH and changes neither graph nor docs.
C7_Step ==
  \A j \in Jobs :
    ( /\ DuplicateAttempt(j)
      /\ jobs[j].pc = "EXTRACT_CHECK"
      /\ InLedger(ledger, LedgerId(jobs[j].evt)) )
    => /\ jobs'[j].pc \in { "EXTRACT_CHECK", "FAILED" }
       /\ jobs'[j].hist = << >>
       /\ jobs'[j] # jobs[j] => graph' = graph /\ docs' = docs /\ site' = site

C7_DuplicateAttemptStopsAtLedger == [][C7_Step]_vars

C7_Witness ==
  \E j \in Jobs :
    /\ DuplicateAttempt(j)
    /\ jobs[j].pc = "FAILED"
    /\ jobs[j].err = "already_processed"
    /\ jobs[j].hist = << >>
    /\ InLedger(ledger, LedgerId(jobs[j].evt))
    /\ graph.nodes # {}

\* C8: a job for an event that is neither pull_request nor release ends
\* "skipped" and executes none of ANALYZE, UPDATE_GRAPH, RENDER_DOCS, PUBLISH.
C8_UnrecognizedIsSkipped ==
  \A j \in Jobs :
    jobs[j].evt.event \notin { "pull_request", "release" } =>
      /\ jobs[j].pc \in { "EXTRACT_CHECK", "EXTRACT_MARK", "SKIPPED", "FAILED" }
      /\ Range(jobs[j].hist) \subseteq { "EXTRACT_FACTS" }

\* the steps workflow.run calls for a fact kind, in order
PipelineOrder(kind) ==
  IF kind = "PR"
  THEN << "EXTRACT_FACTS", "ANALYZE", "UPDATE_GRAPH", "RENDER_DOCS", "PUBLISH" >>
  ELSE << "EXTRACT_FACTS", "UPDATE_GRAPH", "RENDER_DOCS", "PUBLISH" >>

\* C9: the steps of a job start in pipeline order, ANALYZE iff the fact
\* kind is PR (else the empty analysis is passed on), each only after the
\* one before completed, and the job is DONE only after PUBLISH completed.
C9_PipelineOrder ==
  \A j \in Jobs :
    LET order == PipelineOrder(FactKind(jobs[j].evt))
        n == Len(jobs[j].hist)
    IN  /\ n <= Len(order)
        /\ jobs[j].hist = SubSeq(order, 1, n)
        /\ RunningStep(j) # "" => n < Len(order) /\ RunningStep(j) = order[n + 1]
        /\ FactKind(jobs[j].evt) # "PR" => jobs[j].analysis = EmptyAnalysis
        /\ jobs[j].pc = "DONE" => jobs[j].hist = order

\* a PR job that is DONE, with all five steps and ANALYZE's diff
C9_Witness ==
  \E j \in Jobs :
    /\ jobs[j].pc = "DONE"
    /\ FactKind(jobs[j].evt) = "PR"
    /\ Len(jobs[j].hist) = 5
    /\ jobs[j].analysis # EmptyAnalysis

\* C10: a step that completed is not executed again for the same job, also
\* when a later step fails and is retried.
C10_NoReexecution ==
  \A j \in Jobs :
    /\ \A a, b \in 1 .. Len(jobs[j].hist) :
         jobs[j].hist[a] = jobs[j].hist[b] => a = b
    /\ RunningStep(j) \notin Range(jobs[j].hist)

\* a job retrying RENDER_DOCS after its failure, three steps completed
C10_Witness ==
  \E j \in Jobs :
    /\ jobs[j].pc = "RENDER_DOCS"
    /\ jobs[j].attempts > 0
    /\ jobs[j].err = "transient"
    /\ Len(jobs[j].hist) = 3


\* the graph holds the PR or Release node of payload p and an edge to it
GraphApplied(p) ==
  LET ntype == FactKind(p)
      nkey == IF ntype = "PR" THEN "pr:" \o p.number ELSE "release:" \o p.tag
  IN  /\ HasNode(graph, ntype, nkey)
      /\ \E e \in graph.edges : e.dst = NodeAt(graph, ntype, nkey).id

\* C11: under fair scheduling, a job for a recognized, well-formed event
\* with a fresh delivery_id, whose steps fail only with transient errors
\* while attempts are left (EXTRACT_FACTS after its ledger insert included),
\* eventually reaches DONE with its graph mutations applied.
C11_EventuallyDone ==
  \A p \in FloodPayloads :
    (\E j \in Jobs : jobs[j].evt = p)
      ~> (\E j \in Jobs : /\ jobs[j].evt = p
                          /\ jobs[j].pc = "DONE"
                          /\ GraphApplied(p))


\* C12: every _mark_delivery_seen(d) call leaves has_seen(d) true and raises
\* nothing; the ledger holds exactly one row for d, and a repeat call leaves
\* the row of the first call, with its received_at, as it was.
C12_Step ==
  /\ \A r \in ledger : r \in ledger'
  /\ \A j \in Jobs :
       (jobs[j].pc = "EXTRACT_MARK" /\ jobs'[j].pc # "EXTRACT_MARK") =>
         LET d == LedgerId(jobs[j].evt)
         IN  /\ InLedger(ledger', d)
             /\ Cardinality(RowsOf(ledger', d)) = 1
             /\ InLedger(ledger, d) => RowsOf(ledger', d) = RowsOf(ledger, d)
             /\ ~InLedger(ledger, d) =>
                  \A r \in RowsOf(ledger', d) : r.received_at = now
             /\ jobs'[j].err \in { "none", "normalize", "transient" }

C12_LedgerIdempotent == [][C12_Step]_vars

\* two executions have both made the call for one identifier, the second
\* one on a later day than the row's received_at
C12_Witness ==
  \E j1, j2 \in Jobs :
    /\ j1 # j2
    /\ LedgerId(jobs[j1].evt) = LedgerId(jobs[j2].evt)
    /\ Completed(j1, "EXTRACT_FACTS")
    /\ jobs[j2].pc = "EXTRACT_MARK"
    /\ \E r \in RowsOf(ledger, LedgerId(jobs[j1].evt)) : r.received_at < now


\* C13: there is at most one node per (type, natural_key), a node keeps the
\* identity it was created with, and an upsert returns, for a key that
\* exists, the identity of the existing node.
C13_Step ==
  /\ \A n1, n2 \in graph'.nodes :
       (n1.ntype = n2.ntype /\ n1.nkey = n2.nkey) => n1 = n2
  /\ \A n \in graph.nodes :
       /\ HasNode(graph', n.ntype, n.nkey)
       /\ NodeAt(graph', n.ntype, n.nkey).id = n.id
  /\ \A j \in Jobs :
       ( /\ jobs[j].pc = "UPDATE_GRAPH"
         /\ jobs'[j].pc = "UPDATE_GRAPH"
         /\ jobs'[j].ip = jobs[j].ip + 1 ) =>
         LET st == UpdateGraphStmts(Facts(jobs[j].evt),
                                    jobs[j].analysis)[jobs[j].ip]
         IN  st.op = "node" =>
               /\ HasNode(graph', st.ntype, st.nkey)
               /\ jobs'[j].loc[st.var] = NodeAt(graph', st.ntype, st.nkey).id
               /\ HasNode(graph, st.ntype, st.nkey) =>
                    jobs'[j].loc[st.var] = NodeAt(graph, st.ntype, st.nkey).id

C13_OneNodePerKey == [][C13_Step]_vars

\* two jobs have both upserted the node of pull request 7
C13_Witness ==
  \E j1, j2 \in Jobs :
    /\ j1 # j2
    /\ jobs[j1].evt.number = jobs[j2].evt.number
    /\ Completed(j1, "UPDATE_GRAPH")
    /\ Completed(j2, "UPDATE_GRAPH")
    /\ Cardinality({ n \in graph.nodes : n.ntype = "PR" }) = 1


\* the call a step has just logged
LastCall(cs) == cs[Len(cs)]

\* C14: upserting a node that exists with attributes A, with attributes B,
\* sets the title to the new title and the attributes to A shallow-merged
\* with B: the keys of both, B's value on a key of B, A's value on a key
\* of A that B lacks.
C14_Step ==
  ( /\ Len(calls') = Len(calls) + 1
    /\ LastCall(calls').op = "node"
    /\ HasNode(graph, LastCall(calls').ntype, LastCall(calls').nkey) ) =>
    LET c == LastCall(calls')
        old == NodeAt(graph, c.ntype, c.nkey)
        new == NodeAt(graph', c.ntype, c.nkey)
    IN  /\ HasNode(graph', c.ntype, c.nkey)
        /\ new.title = c.title
        /\ DOMAIN new.data = (DOMAIN old.data) \cup (DOMAIN c.data)
        /\ \A k \in DOMAIN c.data : new.data[k] = c.data[k]
        /\ \A k \in (DOMAIN old.data) \ (DOMAIN c.data) :
             new.data[k] = old.data[k]
        /\ new.id = old.id
        /\ graph'.nodes \ {new} = graph.nodes \ {old}

C14_UpsertMergesAttributes == [][C14_Step]_vars

\* a node written by two calls whose attribute maps share no key, with the
\* second call's title: it holds the keys of both
C14_Witness ==
  /\ Len(calls) >= 2
  /\ calls[1].op = "node" /\ calls[2].op = "node"
  /\ calls[1].nkey = calls[2].nkey
  /\ calls[1].data = [author |-> "testuser"]
  /\ calls[2].data = [status |-> "merged"]
  /\ calls[1].title # calls[2].title
  /\ \E n \in graph.nodes :
       /\ n.nkey = calls[1].nkey
       /\ n.title = calls[2].title
       /\ n.data = [author |-> "testuser", status |-> "merged"]

\* C15: _link creates the edge when no edge with its (src, dst, rel) exists
\* and otherwise leaves the edge table as it is: at most one edge per
\* (src, dst, rel), and an edge keeps the attributes it was created with.
C15_Step ==
  /\ \A e1, e2 \in graph'.edges :
       (e1.src = e2.src /\ e1.dst = e2.dst /\ e1.rel = e2.rel) => e1 = e2
  /\ \A e \in graph.edges : e \in graph'.edges
  /\ ( Len(calls') = Len(calls) + 1 /\ LastCall(calls').op = "link" ) =>
       LET c == LastCall(calls')
           e == [src |-> c.src, dst |-> c.dst, rel |-> c.rel, data |-> c.data]
       IN  /\ graph'.nodes = graph.nodes
           /\ IF \E x \in graph.edges :
                   x.src = c.src /\ x.dst = c.dst /\ x.rel = c.rel
              THEN graph'.edges = graph.edges
              ELSE graph'.edges = graph.edges \cup {e}

C15_LinkInsertIfAbsent == [][C15_Step]_vars

\* the same edge asserted twice with different attributes: the table holds
\* the first call's
C15_Witness ==
  /\ Len(calls) = 3
  /\ calls[2].op = "link" /\ calls[3].op = "link"
  /\ calls[2].src = calls[3].src /\ calls[2].dst = calls[3].dst
  /\ calls[2].data # calls[3].data
  /\ graph.edges = { [src |-> calls[2].src, dst |-> calls[2].dst,
                      rel |-> calls[2].rel, data |-> calls[2].data] }


\* a graph without the storage identities: the nodes by key, the edges by
\* the keys of their end nodes
KeyOf(g, id) ==
  IF \E x \in g.nodes : x.id = id
  THEN LET n == CHOOSE x \in g.nodes : x.id = id IN << n.ntype, n.nkey >>
  ELSE << "", "" >>

Content(g) ==
  [nodes |-> { [ntype |-> n.ntype, nkey |-> n.nkey, title |-> n.title,
                data |-> n.data] : n \in g.nodes },
   edges |-> { [src |-> KeyOf(g, e.src), dst |-> KeyOf(g, e.dst),
                rel |-> e.rel, data |-> e.data] : e \in g.edges }]

\* the facts and analyses the jobs handed to UPDATE_GRAPH, as a set
UpdateInputs ==
  { [evt |-> jobs[j].evt, analysis |-> jobs[j].analysis] : j \in Jobs }

\* the update_graph executions of a set of inputs, one after the other, in
\* an order that is a function of the set
RECURSIVE SerialGraph(_, _)
SerialGraph(inputs, g) ==
  IF inputs = {} THEN g
  ELSE LET x == CHOOSE y \in inputs : TRUE
       IN  SerialGraph(inputs \ {x},
                       UpdateGraphResult(g, Facts(x.evt), x.analysis))

\* C16: once the UPDATE_GRAPH steps of a set of events have completed, the
\* graph (nodes with titles and attributes, edges) is the same whatever the
\* order and interleaving of the jobs' upserts, also for two events of one
\* pull request.
C16_OrderIndependent ==
  ( /\ jobs # << >>
    /\ \A m \in Msgs : msgs[m].st = "acked"
    /\ \A j \in Jobs : Completed(j, "UPDATE_GRAPH") )
  => Content(graph) = Content(SerialGraph(UpdateInputs, EmptyGraph))


\* C17: after UPDATE_GRAPH for a PR fact with number n and changed paths P
\* the graph holds exactly one PR node pr:n, one File node per distinct
\* path of P and exactly one touches edge from the PR node to each; the
\* identical message ingested again adds no node and no edge.
C17_PrScenario ==
  \A j \in Jobs :
    (Completed(j, "UPDATE_GRAPH") /\ FactKind(jobs[j].evt) = "PR") =>
      LET f == Facts(jobs[j].evt)
          prs == { n \in graph.nodes :
                     n.ntype = "PR" /\ n.nkey = "pr:" \o f.number }
          once == UpdateGraphResult(EmptyGraph, f, jobs[j].analysis)
      IN  /\ Cardinality(prs) = 1
          /\ \A path \in Range(f.changed_paths) :
               LET files == { n \in graph.nodes :
                                n.ntype = "File" /\ n.nkey = "file:" \o path }
               IN  /\ Cardinality(files) = 1
                   /\ \A pr \in prs, file \in files :
                        Cardinality({ e \in graph.edges :
                                        /\ e.src = pr.id /\ e.dst = file.id
                                        /\ e.rel = "touches" }) = 1
          /\ Cardinality({ n \in graph.nodes : n.ntype = "File" })
               = Cardinality(Range(IF f.changed_paths # << >>
                                   THEN f.changed_paths
                                   ELSE jobs[j].analysis.paths))
          /\ graph.nodes = once.nodes
          /\ graph.edges = once.edges

\* the two-file event ingested, then the same message ingested twice more:
\* once while the job was known, once after its history expired
C17_Witness ==
  /\ Len(msgs) = 3
  /\ \A m \in Msgs : msgs[m].st = "acked" /\ msgs[m].p = PR_E2E
  /\ Len(jobs) = 2
  /\ Completed(1, "UPDATE_GRAPH")
  /\ jobs[2].pc = "FAILED"
  /\ Cardinality({ e \in graph.edges : e.rel = "touches" }) = 2


\* the calls of the log made for delivery id d, as positions
CallsFor(d) == { i \in 1 .. Len(chaos.log) : chaos.log[i].id = d }

\* C19: with no reset between the calls, should_inject_fault injects a
\* fault only for the delivery id the environment names at the call, never
\* when it names none, at the first call made for the named id, and at
\* most once per delivery id.
C19_FaultOnce ==
  /\ \A i \in 1 .. Len(chaos.log) :
       LET c == chaos.log[i]
           named == c.target # "" /\ c.id = c.target
           earlier == { k \in CallsFor(c.id) :
                          k < i /\ chaos.log[k].target = c.id }
       IN  /\ c.out = "fault" => named
           /\ (named /\ earlier = {}) => c.out = "fault"
           /\ (named /\ earlier # {}) => c.out # "fault"
  /\ \A d \in ChaosIds :
       /\ Cardinality({ i \in CallsFor(d) : chaos.log[i].out = "fault" }) <= 1
       /\ d \in chaos.faulted
            <=> \E i \in CallsFor(d) : chaos.log[i].out = "fault"

\* three calls for the target: a fault, then none; and a call for another
\* delivery id passed
C19_Witness ==
  /\ Len(chaos.log) = 3
  /\ chaos.log[1].id = "fault-test-456" /\ chaos.log[1].out = "fault"
  /\ chaos.log[2].id = "dup-test-123" /\ chaos.log[2].target = "fault-test-456"
  /\ chaos.log[2].out # "fault"
  /\ chaos.log[3].id = "fault-test-456"
  /\ chaos.log[3].target = "fault-test-456"
  /\ chaos.log[3].out # "fault"


\* the processing attempts of the log for delivery id d, as positions
AttemptsFor(d) == { i \in CallsFor(d) : chaos.log[i].op = "handle" }

\* what the service has published and recorded for delivery id d
EffectsFor(ch, d) ==
  [published |-> SelectSeq(ch.published, LAMBDA x : x = d),
   processed |-> ch.processed \cap {d}]

C20_MarkOnlyOnSuccess ==
  \A j \in Jobs :
    ( \/ InLedger(ledger, LedgerId(jobs[j].evt))
      \/ jobs[j].err = "already_processed" )
    => \E k \in Jobs : /\ LedgerId(jobs[k].evt) = LedgerId(jobs[j].evt)
                       /\ Completed(k, "EXTRACT_FACTS")


\* C21: the maintenance cleanup step never raises: an error of the ledger
\* pruning or of the branch cleanup is caught and returned as a result with
\* status "error"; status "success" is returned only when both cleanups ran
\* to completion; the Maintenance Job completes and never fails.
C21_CleanupNeverRaises ==
  /\ maint.pc # "FAILED"
  /\ maint.status = "success"
       => maint.pc = "DONE" /\ maint.ran = Range(CleanupStatements)
  /\ maint.pc = "DONE" => maint.status \in { "success", "error" }
  /\ (maint.pc = "DONE" /\ maint.ran # Range(CleanupStatements))
       => maint.status = "error"

\* a run whose branch cleanup raised after the ledger was pruned
C21_Witness ==
  /\ maint.pc = "DONE"
  /\ maint.status = "error"
  /\ maint.ran = { "PRUNE" }
  /\ ledger = {}
  /\ \E j \in Jobs : Completed(j, "EXTRACT_FACTS")

\* the ids of the PR nodes on a short-lived branch that are older than the
\* retention window
OldBranchPrIds ==
  { n.id : n \in { x \in graph.nodes :
                     /\ x.ntype = "PR"
                     /\ "branch_name" \in DOMAIN x.data
                     /\ ShortLivedBranch(x.data.branch_name)
                     /\ x.created_at < now - RetentionDays } }

C22_Step ==
  maint' # maint =>
    /\ ledger' \subseteq ledger
    /\ \A r \in ledger \ ledger' : r.received_at < now - RetentionDays
    /\ graph'.nodes \subseteq graph.nodes
    /\ \A n \in graph.nodes \ graph'.nodes : n.id \in OldBranchPrIds
    /\ graph'.edges \subseteq graph.edges
    /\ \A e \in graph.edges \ graph'.edges : e.src \in OldBranchPrIds

\* C22: a Maintenance Job run deletes only ledger rows older than the
\* retention window, PR nodes whose branch name starts with feature/,
\* hotfix/ or temp/ and that are older than the window, and edges whose
\* source is such a node; it adds and changes nothing.
C22_CleanupDeletesOnly == [][C22_Step]_vars

\* a successful run pruned the ledger and deleted the PR node of a job,
\* and kept the Repo and File nodes the job wrote
C22_Witness ==
  /\ maint.pc = "DONE"
  /\ maint.status = "success"
  /\ ledger = {}
  /\ \E j \in Jobs : Completed(j, "UPDATE_GRAPH")
  /\ ~HasNode(graph, "PR", "pr:11")
  /\ HasNode(graph, "Repo", "org/repo")
  /\ HasNode(graph, "File", "file:a.py")


\* C23: a PR node the pipeline created for a pull request on a short-lived
\* branch (feature/, hotfix/ or temp/) that is older than the retention
\* window is deleted, with its edges, by the next Maintenance Job run: after
\* a run that returned success, no such node that was older than the window
\* when the run started is left.
C23_ShortLivedPrDeleted ==
  (maint.pc = "DONE" /\ maint.status = "success") =>
    \A j \in Jobs :
      (Completed(j, "UPDATE_GRAPH") /\ ShortLivedBranch(jobs[j].evt.branch))
      => \A n \in graph.nodes :
           (n.ntype = "PR" /\ n.nkey = "pr:" \o jobs[j].evt.number)
           => ~(n.created_at < maint.at - RetentionDays)


HashKeys(p) == { "codex-" \o PyHash(JsonDumps(p), sd) : sd \in HashSeeds }

\* C24: the job key computed for a message is a fixed prefix plus the
\* delivery_id whenever a delivery_id is present (the same delivery_id
\* gives the same key, different delivery_ids give different keys), and is
\* derived from a hash of the payload when no delivery_id is present.
C24_JobKey ==
  /\ \A j \in Jobs :
       IF jobs[j].evt.delivery_id # ""
       THEN jobs[j].key = "codex-" \o jobs[j].evt.delivery_id
       ELSE jobs[j].key \in HashKeys(jobs[j].evt)
  /\ \A j, k \in Jobs :
       (jobs[j].evt.delivery_id # "" /\ jobs[k].evt.delivery_id # "")
       => (jobs[j].key = jobs[k].key
             <=> jobs[j].evt.delivery_id = jobs[k].evt.delivery_id)

\* C25: every invocation of the consumer's message handler ends with
\* exactly one of ack or nak called on the message, for every kind of
\* payload: undecodable bytes, JSON that is not an object or whose
\* pull_request is null, and well-formed event objects.
C25_AckOrNakEachDelivery ==
  \A m \in Msgs : msgs[m].acks + msgs[m].naks = msgs[m].dlv

\* C26: two messages the consumer maps to different job keys (also
\* messages without a delivery_id) are never mapped to the same ledger
\* delivery identifier by EXTRACT_FACTS, so that an event is rejected as
\* already processed only if an event with its job key was accepted.
C26_DistinctKeysDistinctLedgerIds ==
  \A j, k \in Jobs :
    jobs[j].key # jobs[k].key
    => LedgerId(jobs[j].evt) # LedgerId(jobs[k].evt)

\* C28: the job key is a function of the message payload: two consumer
\* processes (before and after a restart) that handle byte-identical
\* messages compute the same job key, also for payloads with neither a
\* delivery_id nor a pull_request id.
C28_KeyDeterministic ==
  \A j, k \in Jobs : jobs[j].evt = jobs[k].evt => jobs[j].key = jobs[k].key


\* C29: if an UPDATE_GRAPH execution fails after some of its upserts were
\* committed and the step is then retried to success with the same facts
\* and analysis, the final graph equals the graph of executions that never
\* failed.
C29_RetryGivesSameGraph ==
  ( /\ jobs # << >>
    /\ \A j \in Jobs : Completed(j, "UPDATE_GRAPH") )
  => Content(graph) = Content(SerialGraph(UpdateInputs, EmptyGraph))

\* a job whose update_graph broke off after its first statements and
\* completed at the second execution
C29_Witness ==
  /\ Len(jobs) = 1
  /\ jobs[1].evt = PR_A
  /\ Completed(1, "UPDATE_GRAPH")
  /\ jobs[1].err = "transient"
  /\ Cardinality(graph.edges) = 3


\* the calls of publish_portal with a given outcome
CallsWith(d, out) ==
  { i \in 1 .. Len(chaos.log) :
      /\ chaos.log[i].op = "handle"
      /\ chaos.log[i].id = d
      /\ chaos.log[i].out = out }

\* C30: for any sequence of publish_portal calls, each delivery_id is
\* published at most once and processed_events holds exactly the
\* delivery_ids whose publish succeeded; a call that raises (injected fault
\* or publish error) publishes nothing and leaves processed_events as it
\* was.
C30_PublishAtMostOnce ==
  /\ \A d \in ChaosIds :
       /\ Len(SelectSeq(chaos.published, LAMBDA x : x = d)) <= 1
       /\ Len(SelectSeq(chaos.published, LAMBDA x : x = d))
            = Cardinality(CallsWith(d, "ok"))
       /\ d \in chaos.processed <=> CallsWith(d, "ok") # {}
  /\ chaos.processed \subseteq ChaosIds
  /\ Range(chaos.published) = chaos.processed

\* an injected fault, a publish error and a success for one delivery id:
\* the raising calls left nothing behind
C30_Witness ==
  /\ Len(chaos.log) = 3
  /\ chaos.log[1].out = "fault"
  /\ chaos.log[2].out = "error"
  /\ chaos.log[3].out = "ok"
  /\ \A i \in 1 .. 3 : chaos.log[i].id = "fault-test-456"
  /\ chaos.published = << "fault-test-456" >>

====
